---- MODULE Spec2Model ----
(***************************************************************************)
(* Model of the AIWorker coordinator (modules/AIWorker/app.py) and of the  *)
(* patch-based inference extension (ai/extras/retinanet_openImageSet.py).  *)
(*                                                                         *)
(* Four specifications share the module:                                   *)
(*   SpecQueues    - per-project queue provisioning                        *)
(*   SpecContract  - plugin loading and contract verification              *)
(*   SpecDispatch  - per-call construction and dispatch                    *)
(*   SpecInference - RetinaNet_ois.inference                               *)
(* Each one leaves the variables of the others at their idle values.       *)
(***************************************************************************)
EXTENDS Integers, Sequences, FiniteSets, TLC

VARIABLES
    \* ---- queue provisioning (AIWorker.__init__, _init_project_queues) ----
    demoMode,       \* config 'Project'/'demoMode'
    started,        \* "no" | "running" | "refused" : outcome of AIWorker.__init__
    enabled,        \* catalog: set of shortnames with ai_model_enabled = TRUE
    task_queues,    \* current_app.conf.task_queues, as the sequence of queue names
    consumers,      \* number of current_app.control.add_consumer calls per name
    last,           \* the latest run of _init_project_queues
    lastMsg,        \* the kind of the latest aide_internal_notify message
    \* ---- plugin loading (_init_model_instance, _init_alCriterion_instance) ----
    loader,         \* "model" | "al" | "idle" : which loader is exercised
    library,        \* the class the library name resolves to
    settings,       \* the raw settings payload of the catalog
    outcome,        \* what the loader did: raised, or returned an instance
    ctorCalls,      \* constructor invocations, as the options each one got
    \* ---- call dispatcher (call_train, call_average_model_states, call_inference) ----
    catalog,        \* aide_admin.project: per shortname the configured libraries and settings
    calls,          \* number of requests handled
    constructed,    \* number of instances constructed so far
    lastCall,       \* the latest request and what became of it
    \* ---- RetinaNet_ois.inference ----
    images_disk,    \* image files under baseFolder_unlabeled, as relative paths
    dbFilenames,    \* the filename column of the project's image table
    contrib,        \* options['contrib']: inference_max_num_unlabeled,
                    \* export_empty_patches, load_raw_images
    lastInf         \* the latest inference call and its effects, in order

qvars == <<demoMode, started, enabled, task_queues, consumers, last, lastMsg>>
cvars == <<loader, library, settings, outcome, ctorCalls>>
dvars == <<catalog, calls, constructed, lastCall>>
ivars == <<images_disk, dbFilenames, contrib, lastInf>>

vars == <<qvars, cvars, dvars, ivars>>

(***************************************************************************)
(* Bounds                                                                  *)
(***************************************************************************)
NumProjects == 2        \* project shortnames are 1..NumProjects
MaxExtraRows == 1       \* rows the catalog may return beyond one per project
MaxPayloadLen == 2      \* longest settings payload, in tokens
MaxCalls == 3           \* requests followed by the dispatcher model
MaxUnlabeled == 2       \* largest inference_max_num_unlabeled tried

Projects == 1..NumProjects
DefaultQueue == 0       \* a queue of the Celery configuration that is no project
QueueNames == Projects \cup {DefaultQueue}

Range(s) == {s[i] : i \in DOMAIN s}
NoDuplicates(s) == \A i, j \in DOMAIN s : s[i] = s[j] => i = j

BoundedSeq(S, n) == UNION {[1..k -> S] : k \in 0..n}

(***************************************************************************)
(* _init_project_queues                                                    *)
(***************************************************************************)

\* SELECT shortname FROM aide_admin.project WHERE ai_model_enabled = TRUE:
\* every enabled project is reported, in any order, possibly more than once.
QueryEnabled(en) ==
    {rows \in BoundedSeq(en, Cardinality(en) + MaxExtraRows) : Range(rows) = en}

\* mutant: the name of a new queue is not remembered in current_queue_names
QueueStepForgetName(acc, pName) ==
    IF pName \notin acc.current_queue_names
    THEN [current_queue_names |-> acc.current_queue_names,
          queues |-> Append(acc.queues, pName),
          add_consumer |-> Append(acc.add_consumer, pName),
          log_updates |-> Append(acc.log_updates, pName)]
    ELSE acc

\* one iteration of the loop over the projects (lines 50-56)
QueueStep(acc, pName) ==
    IF pName \notin acc.current_queue_names
    THEN [current_queue_names |-> acc.current_queue_names \cup {pName},
          queues |-> Append(acc.queues, pName),
          add_consumer |-> Append(acc.add_consumer, pName),
          log_updates |-> Append(acc.log_updates, pName)]
    ELSE acc

RECURSIVE QueueLoop(_, _, _)
QueueLoop(acc, projects, i) ==
    IF i > Len(projects) THEN acc
    ELSE QueueLoop(QueueStep(acc, projects[i]), projects, i + 1)

\* mutant: the configuration is updated with the new queues only
ConfUpdateOnlyNew(old, queues, projects) ==
    IF Len(projects) > 0 THEN SubSeq(queues, Len(old) + 1, Len(queues)) ELSE old

\* mutant: the extended queue list is never written back
ConfUpdateDropped(old, queues, projects) == old

\* current_app.conf.update(task_queues=tuple(queues)), inside `if len(projects)`
ConfUpdate(old, queues, projects) ==
    IF Len(projects) > 0 THEN queues ELSE old

\* the whole of _init_project_queues on the registered queues and the query result
InitProjectQueues(registered, projects) ==
    LET acc0 == [current_queue_names |-> Range(registered),
                 queues |-> registered,
                 add_consumer |-> << >>,
                 log_updates |-> << >>]
        acc == IF Len(projects) > 0 THEN QueueLoop(acc0, projects, 1) ELSE acc0
    IN [task_queues |-> ConfUpdate(registered, acc.queues, projects),
        add_consumer |-> acc.add_consumer,
        log_updates |-> acc.log_updates]

\* record of a run: the set of shortnames the query returned, whether a shortname
\* came more than once, whether the run before it got the same set of shortnames,
\* the registered queues before and after, the add_consumer calls
NoRun == [ran |-> FALSE, rows |-> {}, repeated |-> FALSE, sameAsPrev |-> FALSE,
          before |-> << >>, after |-> << >>, adds |-> << >>]

\* state change of one call of _init_project_queues
ProvisionQueues ==
    \E rows \in QueryEnabled(enabled) :
        \E r \in {InitProjectQueues(task_queues, rows)} :
        /\ task_queues' = r.task_queues
        /\ consumers' = [n \in QueueNames |->
                consumers[n] + Cardinality({i \in DOMAIN r.add_consumer : r.add_consumer[i] = n})]
        /\ last' = [ran |-> TRUE, rows |-> Range(rows), repeated |-> ~NoDuplicates(rows),
                    sameAsPrev |-> last.ran /\ last.rows = Range(rows),
                    before |-> task_queues, after |-> r.task_queues,
                    adds |-> r.add_consumer]

NoMsg == "none"

\* AIWorker.__init__ with demoMode set: raises, no worker exists
StartupRefused ==
    /\ started = "no"
    /\ demoMode
    /\ started' = "refused"
    /\ UNCHANGED <<demoMode, enabled, task_queues, consumers, last, lastMsg>>

\* AIWorker.__init__ : the constructor ends with _init_project_queues()
Startup ==
    /\ started = "no"
    /\ ~demoMode
    /\ started' = "running"
    /\ ProvisionQueues
    /\ UNCHANGED <<demoMode, enabled, lastMsg>>

MessageKinds == {"add_projects", "other_task", "no_task"}

\* mutant: every message that has a 'task' key starts the provisioning
HasTaskKey(kind) == kind # "no_task"

\* lines 203-204: 'task' in message and message['task'] == 'add_projects'
IsAddProjects(kind) == kind = "add_projects"

\* aide_internal_notify(message)
Notify ==
    /\ started = "running"
    /\ \E kind \in MessageKinds :
        /\ lastMsg' = kind
        /\ IF IsAddProjects(kind)
           THEN ProvisionQueues
           ELSE UNCHANGED <<task_queues, consumers, last>>
    /\ UNCHANGED <<demoMode, started, enabled>>

\* the administration surface enables or disables AI support of a project
CatalogChange ==
    /\ \E p \in Projects :
        enabled' = IF p \in enabled THEN enabled \ {p} ELSE enabled \cup {p}
    /\ UNCHANGED <<demoMode, started, task_queues, consumers, last, lastMsg>>

(***************************************************************************)
(* Plugin loader and contract verifier                                     *)
(***************************************************************************)
None == <<"None">>      \* Python's None, as a value comparable with parsed settings

\* Settings payloads are strings over three tokens: the brackets and a blank.
PayloadTokens == {"[", "]", " "}
Payloads == {None} \cup BoundedSeq(PayloadTokens, MaxPayloadLen)

RECURSIVE StripBlanks(_)
StripBlanks(s) ==
    IF s = << >> THEN << >>
    ELSE IF Head(s) = " " THEN StripBlanks(Tail(s))
    ELSE <<Head(s)>> \o StripBlanks(Tail(s))

\* a JSON document of nested one-element-or-empty arrays, blanks removed
RECURSIVE IsJsonValue(_)
IsJsonValue(t) ==
    /\ Len(t) >= 2
    /\ t[1] = "[" /\ t[Len(t)] = "]"
    /\ (Len(t) = 2 \/ IsJsonValue(SubSeq(t, 2, Len(t) - 1)))

\* json.loads: the parsed value (the document without insignificant blanks), or
\* an exception
JsonLoads(s) ==
    IF IsJsonValue(StripBlanks(s))
    THEN [raised |-> FALSE, value |-> StripBlanks(s)]
    ELSE [raised |-> TRUE, value |-> None]

\* mutant: a payload that does not parse makes the loader fail
ParseSettingsStrict(raw) ==
    IF raw # None /\ Len(raw) > 0
    THEN JsonLoads(raw)
    ELSE [raised |-> FALSE, value |-> None]

\* lines 64-74 and 113-123: the exception of json.loads is caught
ParseSettings(raw) ==
    IF raw # None /\ Len(raw) > 0
    THEN IF JsonLoads(raw).raised
         THEN [raised |-> FALSE, value |-> None]
         ELSE [raised |-> FALSE, value |-> JsonLoads(raw).value]
    ELSE [raised |-> FALSE, value |-> None]

\* requiredFunctions, in the order the dictionaries list them
InitArgs == {"project", "config", "dbConnector", "fileServer", "options"}
ModelFunctions == <<"__init__", "train", "average_model_states", "inference">>
AlFunctions == <<"__init__", "rank">>
RequiredArgs(key) ==
    CASE key = "__init__" -> InitArgs
      [] key = "train" -> {"stateDict", "data", "updateStateFun"}
      [] key = "average_model_states" -> {"stateDicts", "updateStateFun"}
      [] key = "inference" -> {"stateDict", "data", "updateStateFun"}
      [] key = "rank" -> {"data", "updateStateFun"}

\* How a class may declare a method: not at all, as an attribute that is not
\* callable, or as a function whose parameters are the required ones ("exact"),
\* those without self ("noself"), one required name short ("missing"), one name
\* too many ("extra"), or the required ones followed by *args ("varargs").
Declarations == {"absent", "attr", "exact", "noself", "missing", "extra", "varargs"}
DroppedArg(key) == CHOOSE a \in RequiredArgs(key) : a # "updateStateFun" /\ a # "config"

NoArgSpec == [args |-> {}, varargs |-> None]

\* inspect.getargspec(getattr(cls, key)): the named positional parameters in
\* .args, the name of a * parameter in .varargs (a ** parameter is reported
\* the same way in .keywords and is not in .args either)
GetArgSpec(decl, key) ==
    CASE decl = "exact" -> [args |-> {"self"} \cup RequiredArgs(key), varargs |-> None]
      [] decl = "noself" -> [args |-> RequiredArgs(key), varargs |-> None]
      [] decl = "missing" -> [args |-> {"self"} \cup (RequiredArgs(key) \ {DroppedArg(key)}),
                              varargs |-> None]
      [] decl = "extra" -> [args |-> {"self", "extra"} \cup RequiredArgs(key), varargs |-> None]
      [] decl = "varargs" -> [args |-> {"self"} \cup RequiredArgs(key), varargs |-> <<"args">>]
      [] decl = "inherited" -> [args |-> {"self"}, varargs |-> <<"args">>]
      [] OTHER -> NoArgSpec

\* every name a caller could bind: the formal argument names of the method
FormalNames(spec) ==
    spec.args \cup (IF spec.varargs = None THEN {} ELSE {spec.varargs[1]})

\* getattr(cls, key) as dir() and callable() see it: a class that declares no
\* __init__ inherits object.__init__(self, *args, **kwargs)
Resolve(cls, key) ==
    IF key = "__init__" /\ cls[key] = "absent" THEN "inherited" ELSE cls[key]

\* line 86: functionNames = [func for func in dir(cls) if callable(getattr(cls, func))]
IsFunctionName(cls, key) == Resolve(cls, key) \notin {"absent", "attr"}

\* mutant: a missing function is skipped instead of reported
CheckFunctionSkipMissing(cls, key) ==
    IF ~IsFunctionName(cls, key) THEN "ok"
    ELSE IF \E arg \in RequiredArgs(key) : arg \notin GetArgSpec(Resolve(cls, key), key).args
    THEN "missing_argument"
    ELSE IF \E arg \in GetArgSpec(Resolve(cls, key), key).args :
                arg # "self" /\ arg \notin RequiredArgs(key)
    THEN "unsupported_argument"
    ELSE "ok"

\* the body of `for key in requiredFunctions` (lines 88-99, 135-146)
CheckFunction(cls, key) ==
    IF ~IsFunctionName(cls, key) THEN "missing_function"
    ELSE IF \E arg \in RequiredArgs(key) : arg \notin GetArgSpec(Resolve(cls, key), key).args
    THEN "missing_argument"
    ELSE IF \E arg \in GetArgSpec(Resolve(cls, key), key).args :
                arg # "self" /\ arg \notin RequiredArgs(key)
    THEN "unsupported_argument"
    ELSE "ok"

\* the loop: the first key that fails raises
RECURSIVE CheckContract(_, _, _)
CheckContract(cls, keys, i) ==
    IF i > Len(keys) THEN [error |-> "ok", key |-> "none"]
    ELSE IF CheckFunction(cls, keys[i]) # "ok"
    THEN [error |-> CheckFunction(cls, keys[i]), key |-> keys[i]]
    ELSE CheckContract(cls, keys, i + 1)

\* _init_model_instance / _init_alCriterion_instance as a function of the class
\* and the payload: an exception, or the instance the constructor returns
InitInstance(cls, keys, raw) ==
    LET parsed == ParseSettings(raw)
        verdict == CheckContract(cls, keys, 1)
    IN  IF parsed.raised
        THEN [status |-> "raised", error |-> "settings", key |-> "none", options |-> None]
        ELSE IF verdict.error # "ok"
        THEN [status |-> "raised", error |-> verdict.error, key |-> verdict.key,
              options |-> None]
        ELSE [status |-> "constructed", error |-> "ok", key |-> "none",
              options |-> parsed.value]

Pending == [status |-> "pending", error |-> "ok", key |-> "none", options |-> None]

ModelClasses == [Range(ModelFunctions) -> Declarations]
AlClasses == [Range(AlFunctions) -> Declarations]

\* the constructor is invoked exactly when the loader gets to lines 102 / 149
ConstructorCalls(res) ==
    IF res.status = "constructed" THEN <<res.options>> ELSE << >>

\* _init_model_instance(project, modelLibrary, modelSettings)
InitModelInstance ==
    /\ loader = "model"
    /\ outcome = Pending
    /\ outcome' = InitInstance(library, ModelFunctions, settings)
    /\ ctorCalls' = ctorCalls \o ConstructorCalls(outcome')
    /\ UNCHANGED <<loader, library, settings>>

\* _init_alCriterion_instance(project, alLibrary, alSettings)
InitAlCriterionInstance ==
    /\ loader = "al"
    /\ outcome = Pending
    /\ outcome' = InitInstance(library, AlFunctions, settings)
    /\ ctorCalls' = ctorCalls \o ConstructorCalls(outcome')
    /\ UNCHANGED <<loader, library, settings>>

(***************************************************************************)
(* Call dispatcher                                                         *)
(***************************************************************************)
CalledProjects == {1, 2}    \* the projects whose requests are followed
Reconfigured == {1}         \* the projects whose configuration is changed meanwhile

\* The classes the library names of the catalog resolve to
\* (get_class_executable): two model classes that meet the contract, one whose
\* train lacks an argument; a ranking class that meets it, one with an
\* unsupported argument in rank.
ModelLibraries == {"ai.models.A", "ai.models.B", "ai.models.Broken"}
AlLibraries == {"ai.al.Rank", "ai.al.Broken"}
GetClassExecutable(name) ==
    CASE name \in {"ai.models.A", "ai.models.B"} ->
            [key \in Range(ModelFunctions) |-> "exact"]
      [] name = "ai.models.Broken" ->
            [key \in Range(ModelFunctions) |-> IF key = "train" THEN "missing" ELSE "exact"]
      [] name = "ai.al.Rank" -> [key \in Range(AlFunctions) |-> "exact"]
      [] name = "ai.al.Broken" ->
            [key \in Range(AlFunctions) |-> IF key = "rank" THEN "extra" ELSE "exact"]

CatalogSettings == {None, <<"[", "]">>}
CatalogRows == [ai_model_library : ModelLibraries, ai_model_settings : CatalogSettings,
                ai_alcriterion_library : AlLibraries]

NoInstance == [project |-> 0, library |-> "none", options |-> None, serial |-> 0,
               status |-> "none"]

\* an instance as the loader returns it, numbered by the constructor invocation
\* that made it; status "raised" when the loader raised instead
Instance(project, name, keys, raw, serial) ==
    LET res == InitInstance(GetClassExecutable(name), keys, raw) IN
    [project |-> project, library |-> name, options |-> res.options,
     serial |-> IF res.status = "constructed" THEN serial ELSE 0,
     status |-> res.status]

\* mutant: the instance built last for the project is kept and handed out again
GetModelInstanceCached(project, cat, built, serial) ==
    IF built.project = project /\ built.status = "constructed"
    THEN built
    ELSE Instance(project, cat[project].ai_model_library, ModelFunctions,
                  cat[project].ai_model_settings, serial)

\* _get_model_instance(project): query the catalog, construct
GetModelInstance(project, cat, built, serial) ==
    Instance(project, cat[project].ai_model_library, ModelFunctions,
             cat[project].ai_model_settings, serial)

\* mutant: the ranking class is instantiated without the contract check
GetAlCriterionInstanceUnchecked(project, cat, serial) ==
    [project |-> project, library |-> cat[project].ai_alcriterion_library,
     options |-> None, serial |-> serial, status |-> "constructed"]

\* _get_alCriterion_instance(project); the settings column is left at NULL
GetAlCriterionInstance(project, cat, serial) ==
    Instance(project, cat[project].ai_alcriterion_library, AlFunctions, None, serial)

\* a request: the operation, the project, whether it was forwarded or raised, the
\* instances it got, and the library of the model instance the request before it
\* got when that was for the same project ("none" otherwise)
NoCall == [op |-> "none", project |-> 0, status |-> "none", model |-> NoInstance,
           al |-> NoInstance, previous |-> "none"]

PreviousLibrary(project) ==
    IF lastCall.model.project = project /\ lastCall.model.status = "constructed"
    THEN lastCall.model.library ELSE "none"

\* call_train and call_average_model_states: one model instance, then the
\* functional dispatcher gets its bound method
CallModelOnly(op) ==
    /\ calls < MaxCalls
    /\ \E project \in CalledProjects :
        LET m == GetModelInstance(project, catalog, lastCall.model, constructed + 1) IN
        /\ calls' = calls + 1
        /\ constructed' = IF m.serial > constructed THEN constructed + 1 ELSE constructed
        /\ lastCall' = [op |-> op, project |-> project,
                        status |-> IF m.status = "constructed" THEN "forwarded" ELSE "raised",
                        model |-> m, al |-> NoInstance, previous |-> PreviousLibrary(project)]
    /\ UNCHANGED catalog

CallTrain == CallModelOnly("train")

CallAverageModelStates == CallModelOnly("average_model_states")

\* call_inference: the model instance, then the ranking instance, then the
\* functional dispatcher gets inference and rank
CallInference ==
    /\ calls < MaxCalls
    /\ \E project \in CalledProjects :
        LET m == GetModelInstance(project, catalog, lastCall.model, constructed + 1)
            afterModel == IF m.serial > constructed THEN constructed + 1 ELSE constructed
            a == IF m.status = "constructed"
                 THEN GetAlCriterionInstance(project, catalog, afterModel + 1)
                 ELSE NoInstance
        IN
        /\ calls' = calls + 1
        /\ constructed' = IF a.status = "constructed" THEN afterModel + 1 ELSE afterModel
        /\ lastCall' = [op |-> "inference", project |-> project,
                        status |-> IF m.status = "constructed" /\ a.status = "constructed"
                                   THEN "forwarded" ELSE "raised",
                        model |-> m, al |-> a, previous |-> PreviousLibrary(project)]
    /\ UNCHANGED catalog

\* the administration surface changes a project's configuration
Reconfigure ==
    /\ \E project \in Reconfigured, row \in CatalogRows :
        /\ row # catalog[project]
        /\ catalog' = [catalog EXCEPT ![project] = row]
    /\ UNCHANGED <<calls, constructed, lastCall>>

(***************************************************************************)
(* Patch-based inference extension (RetinaNet_ois)                         *)
(*                                                                         *)
(* File names are sequences of tokens: a letter, ".", "_", an extension, or *)
(* a group of digits ("0", "8" stand for [0-9]+).                          *)
(***************************************************************************)
Digits == {"0", "8"}
RawExtensions == {"NEF"}

Min(a, b) == IF a <= b THEN a ELSE b

DotPositions(f) == {i \in DOMAIN f : f[i] = "."}
Greatest(S) == CHOOSE x \in S : \A y \in S : y <= x
Least(S) == CHOOSE x \in S : \A y \in S : x <= y

\* os.path.splitext: split at the last dot (a leading dot is no extension)
Splitext(f) ==
    IF DotPositions(f) \ {1} = {}
    THEN [root |-> f, ext |-> << >>]
    ELSE [root |-> SubSeq(f, 1, Greatest(DotPositions(f)) - 1),
          ext |-> SubSeq(f, Greatest(DotPositions(f)), Len(f))]

\* re.sub('\..*$', '', filename): everything from the first dot on is cut
StripFromFirstDot(f) ==
    IF DotPositions(f) = {} THEN f ELSE SubSeq(f, 1, Least(DotPositions(f)) - 1)

\* positions where '_[0-9]+_[0-9]+_[0-9]+_[0-9]+\.' matches
SuffixMatches(f) ==
    {i \in DOMAIN f :
        /\ i + 8 <= Len(f)
        /\ \A k \in {0, 2, 4, 6} : f[i + k] = "_" /\ f[i + k + 1] \in Digits
        /\ f[i + 8] = "."}

\* re.sub('_[0-9]+_[0-9]+_[0-9]+_[0-9]+\..*$', '', f): the leftmost match is cut,
\* a name without a match is left as it is
StripPatchSuffix(f) ==
    IF SuffixMatches(f) = {} THEN f ELSE SubSeq(f, 1, Least(SuffixMatches(f)) - 1)

\* line 303
FileSnippetsDb(filenames) == {StripPatchSuffix(f) : f \in filenames}

\* __parse_base_folder: RAW files are listed only with load_raw_images
ParseBaseFolder(disk, loadRaw) ==
    {f \in disk : loadRaw \/ Splitext(f).ext[2] \notin RawExtensions}

\* the generators are read in turn, the RAW patterns last: of two files with one
\* basename, dict(snippets_disk) keeps the extension of the RAW file
ExtensionsDisk(listed) ==
    [root \in {Splitext(f).root : f \in listed} |->
        LET exts == {Splitext(f).ext : f \in {g \in listed : Splitext(g).root = root}}
        IN  IF \E e \in exts : e[2] \in RawExtensions
            THEN CHOOSE e \in exts : e[2] \in RawExtensions
            ELSE CHOOSE e \in exts : TRUE]

\* mutant: every image on disk counts as new
UnlabeledAll(snippetsDisk, snippetsDb) == snippetsDisk

\* line 312
Unlabeled(snippetsDisk, snippetsDb) == snippetsDisk \ snippetsDb

\* line 318: min(self.maxNumUnlabeled, len(unlabeled))
SampleSize(maxNumUnlabeled, n) == Min(maxNumUnlabeled, n)

\* random.sample(population, k): k distinct elements in any order
RandomSample(population, k) ==
    {sq \in [1..k -> population] : \A i, j \in 1..k : sq[i] = sq[j] => i = j}

\* the geometry keys windowCropper.splitImageIntoPatches gives its patches
PatchKeys == {<<"0", "_", "0", "_", "8", "_", "8">>}
\* per key: no such patch, a patch without predictions, a patch with predictions
PatchData == [PatchKeys -> {"none", "empty", "boxes"}]

\* line 228
PatchName(filename, key) == StripFromFirstDot(filename) \o <<"_">> \o key \o <<".", "JPG">>

\* mutant: the export_empty_patches option is not consulted
ExportedKeysAll(patchData, exportEmpty) ==
    {key \in PatchKeys : patchData[key] # "none"}

\* lines 220-240: the patches _inference_image saves and returns
ExportedKeys(patchData, exportEmpty) ==
    {key \in PatchKeys :
        /\ patchData[key] # "none"
        /\ ~(~exportEmpty /\ patchData[key] = "empty")}

InferenceImage(filename, patchData, exportEmpty) ==
    [name \in {PatchName(filename, key) : key \in ExportedKeys(patchData, exportEmpty)} |->
        patchData[CHOOSE key \in PatchKeys : PatchName(filename, key) = name]]

\* response[key] = meta[key]: later images overwrite
Merge(response, meta) ==
    [name \in DOMAIN response \cup DOMAIN meta |->
        IF name \in DOMAIN meta THEN meta[name] ELSE response[name]]

EmptyResponse == [name \in {} |-> "none"]

\* lines 328-337: the loop over the sample; each image is run, its patches are
\* written, the state is reported
RECURSIVE ImageLoop(_, _, _, _, _)
ImageLoop(acc, files, patches, exportEmpty, u) ==
    IF u > Len(files) THEN acc
    ELSE LET meta == InferenceImage(files[u], patches[u], exportEmpty) IN
         ImageLoop([response |-> Merge(acc.response, meta),
                    trace |-> acc.trace \o <<"image">>
                              \o [k \in 1..Cardinality(DOMAIN meta) |-> "write"]
                              \o <<"update">>],
                   files, patches, exportEmpty, u + 1)

\* the key the baseline inference reports the images of `data` under
BaselineKey == <<"data">>

\* mutant: the state is checked only after the catalog was asked
StateDictGuardLate(stateDict) ==
    [raised |-> stateDict = "None", trace |-> <<"update", "query">>]

\* lines 273-281: nothing but the check happens before the raise
StateDictGuard(stateDict) ==
    [raised |-> stateDict = "None", trace |-> << >>]

\* RetinaNet_ois.inference as a function of its inputs and of the choices of
\* random.sample (sample) and of the detector (patches)
Inference(stateDict, filenames, disk, options, sample, patches) ==
    LET guard == StateDictGuard(stateDict)
        listed == ParseBaseFolder(disk, options.load_raw_images)
        extensions_disk == ExtensionsDisk(listed)
        files == [u \in DOMAIN sample |-> sample[u] \o extensions_disk[sample[u]]]
        loop == ImageLoop([response |-> EmptyResponse, trace |-> <<"update", "query">>],
                          files, patches, options.export_empty_patches, 1)
        new == DOMAIN loop.response
    IN  IF guard.raised
        THEN [status |-> "raised", trace |-> guard.trace, processed |-> << >>,
              inserted |-> {}, exported |-> EmptyResponse, response |-> {}]
        ELSE IF Unlabeled(DOMAIN extensions_disk, FileSnippetsDb(filenames)) = {}
        THEN [status |-> "returned", trace |-> <<"update", "query">>, processed |-> << >>,
              inserted |-> {}, exported |-> EmptyResponse, response |-> {}]
        ELSE [status |-> "returned",
              trace |-> loop.trace
                        \o (IF new # {} THEN <<"update", "insert", "query">> ELSE << >>)
                        \o <<"baseline">>,
              processed |-> files,
              inserted |-> new,
              exported |-> loop.response,
              response |-> new \cup {BaselineKey}]

\* the samples random.sample may return for a catalog and a disk
Samples(filenames, disk, options) ==
    LET snippets == DOMAIN ExtensionsDisk(ParseBaseFolder(disk, options.load_raw_images))
        unlabeled == Unlabeled(snippets, FileSnippetsDb(filenames))
    IN  RandomSample(unlabeled,
                     SampleSize(options.inference_max_num_unlabeled, Cardinality(unlabeled)))

NoInference == [ran |-> FALSE, stateDict |-> "None", status |-> "none", trace |-> << >>,
                processed |-> << >>, cropped |-> << >>, dbBefore |-> {},
                exported |-> EmptyResponse, response |-> {}]

\* state change of one call of inference(stateDict, data, updateStateFun)
InferenceEffect(stateDict, sample, patches) ==
    \E r \in {Inference(stateDict, dbFilenames, images_disk, contrib, sample, patches)} :
    /\ dbFilenames' = dbFilenames \cup r.inserted
    /\ lastInf' = [ran |-> TRUE, stateDict |-> stateDict, status |-> r.status,
                   trace |-> r.trace, processed |-> r.processed,
                   cropped |-> [u \in DOMAIN r.processed |-> patches[u]],
                   dbBefore |-> dbFilenames, exported |-> r.exported,
                   response |-> r.response]
    /\ UNCHANGED <<images_disk, contrib>>

\* inference called without a trained state: random.sample and the detector are
\* never reached
InferenceUntrained == InferenceEffect("None", << >>, << >>)

\* inference called with a trained state
InferenceTrained ==
    \E sample \in Samples(dbFilenames, images_disk, contrib) :
    \E patches \in [DOMAIN sample -> PatchData] :
        InferenceEffect("trained", sample, patches)

\* the image files the folder may hold
DiskUniverse == {<<"a", ".", "jpg">>, <<"a", ".", "NEF">>, <<"b", ".", "jpg">>,
                 <<"a", ".", "b", ".", "jpg">>}
\* names the catalog may hold from the beginning: a whole image, and patches
CatalogUniverse == {<<"a", ".", "jpg">>,
                    <<"a", "_", "0", "_", "0", "_", "8", "_", "8", ".", "JPG">>,
                    <<"b", "_", "8", "_", "0", "_", "8", "_", "8", ".", "JPG">>}

(***************************************************************************)
(* Specifications                                                          *)
(***************************************************************************)
IdleInference ==
    /\ images_disk = {}
    /\ dbFilenames = {}
    /\ contrib = [inference_max_num_unlabeled |-> 0, export_empty_patches |-> FALSE,
                  load_raw_images |-> TRUE]
    /\ lastInf = NoInference

IdleQueues ==
    /\ demoMode = FALSE
    /\ started = "no"
    /\ enabled = {}
    /\ task_queues = << >>
    /\ consumers = [n \in QueueNames |-> 0]
    /\ last = NoRun
    /\ lastMsg = NoMsg

IdleContract ==
    /\ loader = "idle"
    /\ library = [k \in {} |-> "absent"]
    /\ settings = None
    /\ outcome = Pending
    /\ ctorCalls = << >>

DefaultRow == [ai_model_library |-> "ai.models.A", ai_model_settings |-> None,
               ai_alcriterion_library |-> "ai.al.Rank"]

IdleDispatch ==
    /\ catalog = [p \in CalledProjects |-> DefaultRow]
    /\ calls = 0
    /\ constructed = 0
    /\ lastCall = NoCall

InitQueues ==
    /\ demoMode \in BOOLEAN
    /\ started = "no"
    /\ enabled \in SUBSET Projects
    /\ task_queues \in {s \in BoundedSeq({DefaultQueue, 1}, 2) : NoDuplicates(s)}
    /\ consumers = [n \in QueueNames |-> 0]
    /\ last = NoRun
    /\ lastMsg = NoMsg
    /\ IdleContract
    /\ IdleDispatch
    /\ IdleInference

NextQueues ==
    \/ (StartupRefused /\ UNCHANGED <<cvars, dvars, ivars>>)
    \/ (Startup /\ UNCHANGED <<cvars, dvars, ivars>>)
    \/ (Notify /\ UNCHANGED <<cvars, dvars, ivars>>)
    \/ (CatalogChange /\ UNCHANGED <<cvars, dvars, ivars>>)

SpecQueues == InitQueues /\ [][NextQueues]_vars

InitContract ==
    /\ IdleQueues
    /\ loader \in {"model", "al"}
    /\ library \in IF loader = "model" THEN ModelClasses ELSE AlClasses
    /\ settings \in Payloads
    /\ outcome = Pending
    /\ ctorCalls = << >>
    /\ IdleDispatch
    /\ IdleInference

NextContract ==
    \/ (InitModelInstance /\ UNCHANGED <<qvars, dvars, ivars>>)
    \/ (InitAlCriterionInstance /\ UNCHANGED <<qvars, dvars, ivars>>)

SpecContract == InitContract /\ [][NextContract]_vars

InitDispatch ==
    /\ IdleQueues
    /\ IdleContract
    /\ catalog \in {c \in [CalledProjects -> CatalogRows] :
                        \A p \in CalledProjects \ Reconfigured : c[p] = DefaultRow}
    /\ calls = 0
    /\ constructed = 0
    /\ lastCall = NoCall
    /\ IdleInference

NextDispatch ==
    \/ (CallTrain /\ UNCHANGED <<qvars, cvars, ivars>>)
    \/ (CallAverageModelStates /\ UNCHANGED <<qvars, cvars, ivars>>)
    \/ (CallInference /\ UNCHANGED <<qvars, cvars, ivars>>)
    \/ (Reconfigure /\ UNCHANGED <<qvars, cvars, ivars>>)

SpecDispatch == InitDispatch /\ [][NextDispatch]_vars

InitInference ==
    /\ IdleQueues
    /\ IdleContract
    /\ IdleDispatch
    /\ images_disk \in SUBSET DiskUniverse
    /\ dbFilenames \in SUBSET CatalogUniverse
    /\ contrib \in [inference_max_num_unlabeled : 0..MaxUnlabeled,
                    export_empty_patches : BOOLEAN,
                    load_raw_images : BOOLEAN]
    /\ lastInf = NoInference

NextInference ==
    \/ (InferenceUntrained /\ UNCHANGED <<qvars, cvars, dvars>>)
    \/ (InferenceTrained /\ UNCHANGED <<qvars, cvars, dvars>>)

SpecInference == InitInference /\ [][NextInference]_vars

(***************************************************************************)
(* Claims on queue provisioning, checked under SpecQueues                  *)
(***************************************************************************)
Count(seq, x) == Cardinality({i \in DOMAIN seq : seq[i] = x})

\* C1: a run of _init_project_queues that gets the same set of AI-enabled
\* projects as the run before it calls add_consumer zero times and leaves the
\* registered task_queues as the run before it left them.
C1_ProvisioningIdempotent ==
    (last.ran /\ last.sameAsPrev) =>
        /\ last.adds = << >>
        /\ last.after = last.before
        /\ task_queues = last.before

\* a second run over a non-empty project set for which the worker had added a queue
C1_Witness ==
    /\ last.ran /\ last.sameAsPrev
    /\ \E p \in last.rows : consumers[p] > 0

\* C2: after _init_project_queues every project the catalog reported has a
\* registered queue of its name; add_consumer was called exactly once for each
\* reported project that had no queue before, never for one that had, also when
\* the catalog reports a shortname more than once.
C2_OneConsumerPerNewProject ==
    last.ran =>
        /\ last.rows \subseteq Range(last.after)
        /\ Range(last.adds) \subseteq last.rows
        /\ \A p \in last.rows :
            Count(last.adds, p) = IF p \in Range(last.before) THEN 0 ELSE 1

\* a run with a repeated shortname, a new project and an already registered one
C2_Witness ==
    /\ last.ran /\ last.repeated
    /\ last.adds # << >>
    /\ \E p \in last.rows : p \in Range(last.before)

\* C3: the registered task queues never hold two queues of one name, and no step
\* (startup, notification, catalog change) removes a registered queue.
C3_QueuesUniqueAndPersistent ==
    /\ [](NoDuplicates(task_queues))
    /\ [][Range(task_queues) \subseteq Range(task_queues')]_vars

\* a queue the worker added is still registered after its project was disabled
\* and provisioning ran again without it
C3_Witness ==
    /\ last.ran
    /\ \E p \in Projects :
        /\ consumers[p] = 1
        /\ p \notin enabled
        /\ p \notin last.rows
        /\ p \in Range(task_queues)
        /\ last.adds # << >>

(***************************************************************************)
(* Claims on the plugin loader, checked under SpecContract                 *)
(***************************************************************************)
LoaderFunctions == IF loader = "model" THEN ModelFunctions ELSE AlFunctions

\* C4: a model class that declares no __init__, train, average_model_states or
\* inference, and a ranking class that declares no __init__ or rank, makes the
\* loader raise, and the constructor of the class is never invoked.
C4_MissingMethodIsFatal ==
    (outcome # Pending /\ \E key \in Range(LoaderFunctions) : library[key] = "absent") =>
        /\ outcome.status = "raised"
        /\ ctorCalls = << >>

\* a model class complete but for inference, rejected at that method
C4_Witness ==
    /\ loader = "model"
    /\ outcome.status = "raised"
    /\ library["inference"] = "absent"
    /\ \A key \in {"__init__", "train", "average_model_states"} : library[key] = "exact"
    /\ outcome.key = "inference"
    /\ ctorCalls = << >>

\* C5 (as claimed): the loader constructs the instance if and only if every
\* required method is there and its formal argument names, self left out, are
\* exactly the required names of that method.
C5_AcceptsIffExactNames ==
    outcome # Pending =>
        (outcome.status = "constructed" <=>
            \A key \in Range(LoaderFunctions) :
                /\ IsFunctionName(library, key)
                /\ FormalNames(GetArgSpec(Resolve(library, key), key)) \ {"self"}
                        = RequiredArgs(key))

\* C6: the settings payload never makes the loader fail; a class that passes the
\* contract check is constructed, once, with options None when the payload is
\* None, empty or not parsable, and with the parsed value otherwise.
C6_SettingsDegradeToNone ==
    outcome # Pending =>
        /\ outcome.error # "settings"
        /\ CheckContract(library, LoaderFunctions, 1).error = "ok" =>
            /\ outcome.status = "constructed"
            /\ ctorCalls = <<outcome.options>>
            /\ outcome.options =
                IF settings = None \/ settings = << >> THEN None
                ELSE IF IsJsonValue(StripBlanks(settings)) THEN StripBlanks(settings)
                ELSE None

\* a payload that is neither None nor empty and does not parse: constructed with None
C6_Witness ==
    /\ outcome.status = "constructed"
    /\ settings # None /\ settings # << >>
    /\ ~IsJsonValue(StripBlanks(settings))
    /\ ctorCalls = <<None>>

(***************************************************************************)
(* Claims on the call dispatcher, checked under SpecDispatch               *)
(***************************************************************************)
\* C7: no request reuses an instance: every request that is forwarded was served
\* by a model instance constructed during that request (its constructor
\* invocation is later than every earlier one) from the library and the settings
\* the catalog holds for the project at that moment, and call_inference builds a
\* ranking instance the same way; a reconfigured library is what the next request
\* constructs.
C7_FreshInstancePerCall ==
    [][(calls' # calls /\ lastCall'.status = "forwarded") =>
        /\ lastCall'.model.serial > constructed
        /\ lastCall'.model.library = catalog[lastCall'.project].ai_model_library
        /\ lastCall'.model.options = catalog[lastCall'.project].ai_model_settings
        /\ lastCall'.op = "inference" =>
            /\ lastCall'.al.serial > lastCall'.model.serial
            /\ lastCall'.al.library = catalog[lastCall'.project].ai_alcriterion_library
        /\ lastCall'.op # "inference" => lastCall'.al = NoInstance]_vars

\* two successive requests of one project, the library changed in between, the
\* second served by an instance of the new library
C7_Witness ==
    /\ lastCall.status = "forwarded"
    /\ lastCall.previous # "none"
    /\ lastCall.previous # lastCall.model.library
    /\ lastCall.model.library = catalog[lastCall.project].ai_model_library
    /\ lastCall.model.serial > 1

\* the loader raises for the class of this name
ContractFails(name, keys, raw) ==
    InitInstance(GetClassExecutable(name), keys, raw).status = "raised"

\* C13: a request for a project whose model class fails the contract check is
\* raised, constructs nothing and is not forwarded; a call_inference request
\* whose ranking class fails the check is raised and not forwarded; what is
\* forwarded has a constructed model instance and, for call_inference, a ranking
\* instance constructed after it.
C13_ViolationsRaisedBeforeDispatch ==
    [][calls' # calls =>
        LET row == catalog[lastCall'.project]
            modelFails == ContractFails(row.ai_model_library, ModelFunctions,
                                        row.ai_model_settings)
            alFails == ContractFails(row.ai_alcriterion_library, AlFunctions, None)
        IN
        /\ modelFails =>
            /\ lastCall'.status = "raised"
            /\ lastCall'.al = NoInstance
            /\ constructed' = constructed
        /\ (lastCall'.op = "inference" /\ alFails) => lastCall'.status = "raised"
        /\ lastCall'.status = "forwarded" =>
            /\ lastCall'.model.status = "constructed"
            /\ lastCall'.op = "inference" =>
                /\ lastCall'.al.status = "constructed"
                /\ lastCall'.al.serial > lastCall'.model.serial
                /\ constructed' = lastCall'.al.serial]_vars

\* a call_inference request that built its model instance and was raised by the
\* ranking class's contract check
C13_Witness ==
    /\ lastCall.op = "inference"
    /\ lastCall.status = "raised"
    /\ lastCall.model.status = "constructed"
    /\ lastCall.al.status = "raised"
    /\ lastCall.al.library = "ai.al.Broken"

(***************************************************************************)
(* Claims on RetinaNet_ois.inference, checked under SpecInference          *)
(***************************************************************************)
\* the image files __parse_base_folder finds, and their basenames that no
\* catalog filename strips back to, for the catalog as the latest call found it
ListedImages == {f \in images_disk :
                    contrib.load_raw_images \/ f[Len(f)] \notin RawExtensions}
Uncatalogued ==
    {Splitext(f).root : f \in ListedImages}
        \ {StripPatchSuffix(f) : f \in lastInf.dbBefore}

\* C8: inference with stateDict = None raises before any effect: no
\* updateStateFun call, no catalog query or insert, no patch written, no image
\* run, the baseline inference not invoked, the catalog as it was.
C8_NoStateIsFatalWithoutEffect ==
    (lastInf.ran /\ lastInf.stateDict = "None") =>
        /\ lastInf.status = "raised"
        /\ lastInf.trace = << >>
        /\ lastInf.processed = << >>
        /\ DOMAIN lastInf.exported = {}
        /\ dbFilenames = lastInf.dbBefore

\* a call without state while un-catalogued images wait on disk
C8_Witness ==
    /\ lastInf.ran /\ lastInf.stateDict = "None"
    /\ lastInf.status = "raised"
    /\ Uncatalogued # {}
    /\ contrib.inference_max_num_unlabeled > 0

\* C9 (as claimed): every inference call with a trained state ends with the
\* baseline inference, whose results are part of the response, also when no
\* un-catalogued image is on disk; the catalog insert comes before it.
C9_BaselineAlwaysRuns ==
    (lastInf.ran /\ lastInf.stateDict = "trained") =>
        /\ lastInf.status = "returned"
        /\ lastInf.trace # << >>
        /\ lastInf.trace[Len(lastInf.trace)] = "baseline"
        /\ BaselineKey \in lastInf.response
        /\ \A i \in DOMAIN lastInf.trace :
            lastInf.trace[i] = "insert" => i < Len(lastInf.trace)

PatchesKept(exportEmpty) ==
    {<<u, key>> \in (DOMAIN lastInf.cropped) \X PatchKeys :
        \/ lastInf.cropped[u][key] = "boxes"
        \/ exportEmpty /\ lastInf.cropped[u][key] = "empty"}

\* C11: with export_empty_patches false every patch a call writes and returns
\* has at least one prediction, and only the cropper's patches with predictions
\* are written; with the option true every patch the cropper returned, also one
\* without predictions, is written and returned.
C11_EmptyPatchesDropped ==
    (lastInf.ran /\ lastInf.stateDict = "trained") =>
        /\ ~contrib.export_empty_patches =>
            \A name \in DOMAIN lastInf.exported : lastInf.exported[name] = "boxes"
        /\ \A pair \in PatchesKept(contrib.export_empty_patches) :
            PatchName(lastInf.processed[pair[1]], pair[2]) \in DOMAIN lastInf.exported
        /\ Count(lastInf.trace, "write") =
            Cardinality(PatchesKept(contrib.export_empty_patches))

\* the option is set and a patch without predictions was written and returned
C11_Witness ==
    /\ lastInf.ran /\ lastInf.stateDict = "trained"
    /\ contrib.export_empty_patches
    /\ \E name \in DOMAIN lastInf.exported : lastInf.exported[name] = "empty"
    /\ \E pair \in PatchesKept(TRUE) : lastInf.cropped[pair[1]][pair[2]] = "empty"
    /\ Count(lastInf.trace, "write") >= 1

\* C12: the worker's construction and every handled 'add_projects' message
\* leave each project that is AI-enabled at that moment with a registered queue,
\* and with one more consumer if the queue was not registered before; a message
\* without a 'task' key or with another task leaves task_queues and the
\* consumers as they were.
C12_ProvisionedAtStartupAndOnAddProjects ==
    /\ [][((started = "no" /\ started' = "running")
            \/ (lastMsg' = "add_projects" /\ enabled' = enabled /\ started = "running"))
           => \A p \in enabled :
                /\ p \in Range(task_queues')
                /\ p \notin Range(task_queues) => consumers'[p] = consumers[p] + 1]_vars
    /\ [][lastMsg' \in {"other_task", "no_task"}
           => UNCHANGED <<task_queues, consumers>>]_vars

\* a project that had no queue after startup got its queue and its consumer
\* from the run that an 'add_projects' message started
C12_Witness ==
    /\ started = "running"
    /\ lastMsg = "add_projects"
    /\ last.ran
    /\ \E p \in last.rows :
        /\ p \notin Range(last.before)
        /\ p \in Range(task_queues)
        /\ consumers[p] = 1

\* the basenames of the listed images that no filename of the catalog, as it is
\* now, strips back to: what the next call draws its sample from
UncataloguedNow ==
    Unlabeled(DOMAIN ExtensionsDisk(ParseBaseFolder(images_disk, contrib.load_raw_images)),
              FileSnippetsDb(dbFilenames))

\* C14 (as claimed): the name of every patch a call inserted strips back, by
\* the discovery pattern, to the on-disk basename of the image it was cut from,
\* so that an image with at least one inserted patch is not among the
\* un-catalogued images of any later call.
C14_PatchNamesRoundTrip ==
    (lastInf.ran /\ lastInf.stateDict = "trained") =>
        \A pair \in PatchesKept(contrib.export_empty_patches) :
            LET file == lastInf.processed[pair[1]]
                patchName == PatchName(file, pair[2])
            IN  /\ patchName \in dbFilenames
                /\ StripPatchSuffix(patchName) = Splitext(file).root
                /\ Splitext(file).root \notin UncataloguedNow

====
